---- MODULE Spec2Model ----
(***************************************************************************)
(* Model of memsql_loader/execution/downloader.py: the DownloadMetrics     *)
(* tracker and the Downloader worker thread (load, run, terminate, the     *)
(* progress callback and the FIFO write callback).                         *)
(*                                                                         *)
(* Time.  The code reads time.time() and compares differences of           *)
(* timestamps with 1 s (throttle), 15 s (select) and 30 s (stall).  The    *)
(* model keeps, for every timestamp the code stores, its age in whole      *)
(* seconds (time.time() minus the timestamp), advanced by Tick and         *)
(* saturated just above the largest value it is compared with.             *)
(***************************************************************************)
EXTENDS Integers, Sequences, FiniteSets, TLC

\* ------------------------------------------------------------ constants
DOWNLOAD_TIMEOUT == 30
AVG_LEN == 30
THROTTLE_SECONDS == 1
MIN_DIFF == 10
CLIENT_ERROR_LO == 400
CLIENT_ERROR_HI == 500

\* ------------------------------------------------------------ bounds
SmallChunk == 6
BigChunk == 11

ChunkSizes == {SmallChunk, BigChunk}
Sizes == {0, SmallChunk, BigChunk}
\* the sizes tried for a key of each scheme
SizesOf(sch) == IF sch = "s3" THEN Sizes ELSE {0}
Schemes == {"s3", "hdfs", "file", "ftp"}
Lookups == {"found", "bucket_error", "key_error", "no_key", "missing",
            "not_a_file", "unsupported"}
StatusCodes == {0, 200, 399, 400, 499, 500}
\* values accumulate_bytes is fed when the tracker is exercised on its own
FeedValues == {0, SmallChunk, BigChunk}

VARIABLES
    pc,              \* position of the worker: "new", load(), then inside run()
    should_exit,     \* Downloader._should_exit
    error,           \* Downloader._error
    tb,              \* Downloader._tb is set
    exc,             \* the exception in flight inside run()
    escaped,         \* the exception run() let through to its caller
    load_error,      \* the exception load() raised
    scheme,          \* task.data['scheme']
    total_size,      \* DownloadMetrics._total_size
    current_size,    \* DownloadMetrics._current_size
    last_snapshot,   \* DownloadMetrics._last_snapshot
    snapshots,       \* DownloadMetrics._snapshots
    last_change_age, \* time.time() - DownloadMetrics._last_change
    ping_age,        \* time since ping() last ran its body
    snapshot_age,    \* time since snapshot() last ran its body
    dlnow,           \* bytes libcurl has received and handed to the write callback
    to_write,        \* _write_to_fifo_helper's to_write
    fifo,            \* the bytes os.write has put into the FIFO, in order
    sel_elapsed,     \* time spent in the current select.select call
    polled,          \* libcurl has called _progress in the current second
    steps,           \* history: start_step, stop_step and _set_error calls, in order
    abort_flag,      \* history: _should_exit when _progress returned 1
    classify_flag,   \* history: _should_exit when run() tested it at line 195
    since_big,       \* history: time since a snapshot last saw diff > 10
    change_src,      \* history: who last set _last_change
    evicted,         \* history: a delta has been dropped from _snapshots
    wrote,           \* history: the write callback returned and no time has passed
    timed,           \* history: since_big is kept (it is under SpecStall only)
    stats            \* a get_stats call of the worker's thread: its position and locals

vars == <<pc, should_exit, error, tb, exc, escaped, load_error, scheme, total_size,
          current_size, last_snapshot, snapshots, last_change_age, ping_age,
          snapshot_age, dlnow, to_write, fifo, sel_elapsed, polled, steps, abort_flag,
          classify_flag, since_big, change_src, evicted, wrote, timed, stats>>

metricsVars == <<total_size, current_size, last_snapshot, snapshots,
                 last_change_age, ping_age, snapshot_age, since_big,
                 change_src, evicted>>
workerVars == <<error, tb, exc, escaped, load_error, scheme>>
relayVars == <<to_write, fifo, sel_elapsed>>
curlVars == <<dlnow, polled>>

\* ------------------------------------------------------------ helpers
None == [cls |-> "None", arg |-> <<>>]

\* no get_stats call is running
NoCall == [at |-> "idle", rate |-> 0, time_left |-> 0, clean |-> TRUE]
Exc(c, a) == [cls |-> c, arg |-> a]

Min(a, b) == IF a < b THEN a ELSE b

\* an age one second later, saturated at cap
Older(age, cap) == Min(age + 1, cap)

\* bytes number lo+1 .. lo+n of the source stream (byte i carries the value i)
Bytes(lo, n) == [i \in 1..n |-> lo + i]

RECURSIVE SumSeq(_)
SumSeq(s) == IF s = <<>> THEN 0 ELSE Head(s) + SumSeq(Tail(s))

ThrottledNever(age) == FALSE

\* ------------------------------------------------------------ DownloadMetrics
\* @throttle(1, instance_method=True): the call is dropped unless more than
\* the period has passed since the body last ran
Throttled(age) == ~(age > THROTTLE_SECONDS)

EvictNewest(s) == IF Len(s) > AVG_LEN THEN SubSeq(s, 1, AVG_LEN) ELSE s

\* self._snapshots = self._snapshots[(-1 * self._avg_len):]
LastN(s) == SubSeq(s, Len(s) - AVG_LEN + 1, Len(s))

Evict(s) == IF Len(s) > AVG_LEN THEN LastN(s) ELSE s

\* diff > 10
Meaningful(diff) == diff > MIN_DIFF

\* DownloadMetrics.__init__(total_size)
MetricsInit(size) ==
    /\ total_size' = size
    /\ current_size' = 0
    /\ last_snapshot' = 0
    /\ last_change_age' = 0
    /\ snapshots' = <<>>
    /\ ping_age' = THROTTLE_SECONDS + 1
    /\ snapshot_age' = THROTTLE_SECONDS + 1
    /\ since_big' = 0
    /\ change_src' = "init"
    /\ evicted' = FALSE

\* DownloadMetrics.ping(), called by who: sets _last_change unless throttled
Ping(who) ==
    IF Throttled(ping_age)
    THEN UNCHANGED <<last_change_age, ping_age, change_src>>
    ELSE /\ last_change_age' = 0
         /\ ping_age' = 0
         /\ change_src' = who

accumulate_bytes_KeepingLastSnapshot(current) ==
    /\ current_size' = current
    /\ UNCHANGED total_size
    /\ IF Throttled(snapshot_age)
       THEN UNCHANGED <<last_snapshot, snapshots, last_change_age, ping_age,
                        snapshot_age, since_big, change_src, evicted>>
       ELSE LET diff == current - last_snapshot IN
            /\ snapshot_age' = 0
            /\ IF Meaningful(diff)
               THEN Ping("snapshot") /\ since_big' = 0
               ELSE UNCHANGED <<last_change_age, ping_age, change_src, since_big>>
            /\ snapshots' = Evict(Append(snapshots, diff))
            /\ evicted' = (evicted \/ Len(snapshots) + 1 > AVG_LEN)
            /\ UNCHANGED last_snapshot

\* DownloadMetrics.accumulate_bytes(current), with the snapshot() it calls
accumulate_bytes(current) ==
    /\ current_size' = current
    /\ UNCHANGED total_size
    /\ IF Throttled(snapshot_age)
       THEN UNCHANGED <<last_snapshot, snapshots, last_change_age, ping_age,
                        snapshot_age, since_big, change_src, evicted>>
       ELSE LET diff == current - last_snapshot IN
            /\ snapshot_age' = 0
            /\ IF Meaningful(diff)
               THEN Ping("snapshot") /\ since_big' = 0
               ELSE UNCHANGED <<last_change_age, ping_age, change_src, since_big>>
            /\ snapshots' = Evict(Append(snapshots, diff))
            /\ evicted' = (evicted \/ Len(snapshots) + 1 > AVG_LEN)
            /\ last_snapshot' = current

RateWithoutCompleteTest(current, total, window) ==
    IF Len(window) = 0 THEN 0 ELSE SumSeq(window) \div Len(window)

\* get_stats, lines 59-63: rate; `/` divides integers, rounding down
Rate(current, total, window) ==
    IF current = total \/ Len(window) = 0
    THEN 0
    ELSE SumSeq(window) \div Len(window)

\* get_stats, line 65: time_left
TimeLeft(total, current, rate) ==
    IF rate = 0 THEN -1 ELSE (total - current) \div rate

\* accumulate_bytes ran in the transfer thread while a get_stats call was
\* between two of its reads
Interfered(call) ==
    IF call.at = "idle" THEN call ELSE [call EXCEPT !.clean = FALSE]

\* one second of wall-clock time passes for the tracker
MetricsOlder ==
    /\ last_change_age' = Older(last_change_age, DOWNLOAD_TIMEOUT + 1)
    /\ ping_age' = Older(ping_age, THROTTLE_SECONDS + 1)
    /\ snapshot_age' = Older(snapshot_age, THROTTLE_SECONDS + 1)
    /\ since_big' = IF timed THEN Older(since_big, DOWNLOAD_TIMEOUT + 1) ELSE since_big
    /\ UNCHANGED <<total_size, current_size, last_snapshot, snapshots,
                   change_src, evicted>>

\* ------------------------------------------------------------ Downloader
\* Downloader.__init__: nothing loaded, no error, not asked to exit
Init ==
    /\ pc = "new"
    /\ should_exit = FALSE
    /\ error = None
    /\ tb = FALSE
    /\ exc = None
    /\ escaped = None
    /\ load_error = None
    /\ scheme = "none"
    /\ total_size = 0
    /\ current_size = 0
    /\ last_snapshot = 0
    /\ snapshots = <<>>
    /\ last_change_age = 0
    /\ ping_age = 0
    /\ snapshot_age = 0
    /\ dlnow = 0
    /\ to_write = <<>>
    /\ fifo = <<>>
    /\ sel_elapsed = 0
    /\ polled = FALSE
    /\ steps = <<>>
    /\ abort_flag = "na"
    /\ classify_flag = "na"
    /\ since_big = 0
    /\ change_src = "init"
    /\ evicted = FALSE
    /\ wrote = FALSE
    /\ timed = FALSE
    /\ stats = NoCall

terminate_Toggling ==
    /\ should_exit' = ~should_exit
    /\ wrote' = FALSE
    /\ UNCHANGED <<pc, workerVars, metricsVars, curlVars, relayVars, steps,
                   abort_flag, classify_flag, timed, stats>>

\* Downloader.terminate(), called from the thread that owns the worker
terminate ==
    /\ ~should_exit
    /\ should_exit' = TRUE
    /\ wrote' = FALSE
    /\ UNCHANGED <<pc, workerVars, metricsVars, curlVars, relayVars, steps,
                   abort_flag, classify_flag, timed,
                   stats>>

\* what the backend of each scheme can answer to the lookup load() makes
LookupsOf(sch) ==
    CASE sch = "s3" -> {"found", "bucket_error", "key_error", "no_key"}
      [] sch = "hdfs" -> {"found", "missing"}
      [] sch = "file" -> {"found", "missing", "not_a_file"}
      [] OTHER -> {"unsupported"}

LoadResultUniform(sch, lookup) ==
    CASE lookup = "found" -> None
      [] lookup \in {"bucket_error", "key_error", "no_key"} ->
            Exc("WorkerException", <<"status", "reason", "key_name">>)
      [] lookup = "missing" -> Exc("WorkerException", <<"key_name", "missing">>)
      [] lookup = "not_a_file" -> Exc("WorkerException", <<"key_name", "not_a_file">>)
      [] OTHER -> Exc("WorkerException", <<"paths", "unsupported">>)

\* the exception load() raises for a lookup answer, None when self.key is found
LoadResult(sch, lookup) ==
    CASE lookup = "found" -> None
      [] lookup = "bucket_error" -> Exc("S3ResponseError", <<"status", "reason">>)
      [] lookup = "key_error" ->
            Exc("WorkerException", <<"status", "reason", "key_name">>)
      [] lookup = "no_key" -> Exc("WorkerException", <<"task_id">>)
      [] lookup = "missing" -> Exc("WorkerException", <<"key_name", "missing">>)
      [] lookup = "not_a_file" -> Exc("WorkerException", <<"key_name", "not_a_file">>)
      [] OTHER -> Exc("WorkerException", <<"paths", "unsupported">>)

\* Downloader.load(job, task, fifo)
load(sch, lookup, size) ==
    /\ pc = "new"
    /\ lookup \in LookupsOf(sch)
    /\ size \in SizesOf(sch)
    /\ scheme' = sch
    /\ load_error' = LoadResult(sch, lookup)
    /\ IF load_error' = None
       THEN pc' = "loaded" /\ MetricsInit(size)
       ELSE pc' = "load_failed" /\ size = 0 /\ UNCHANGED metricsVars
    /\ wrote' = FALSE
    /\ UNCHANGED <<should_exit, error, tb, exc, escaped, curlVars, relayVars,
                   steps, abort_flag, classify_flag, timed,
                   stats>>

\* ------------------------------------------------------------ run()
ClassifyIgnoringFlag(e, flag) ==
    IF e.cls = "pycurl.error" /\ e.arg[1] = "E_ABORTED_BY_CALLBACK"
    THEN Exc("RequeueTask", <<>>)
    ELSE e

\* except pycurl.error as e (inner): RequeueTask() is raised for an abort by
\* the callback with _should_exit unset, anything else is raised again
Classify(e, flag) ==
    IF e.cls = "pycurl.error" /\ e.arg[1] = "E_ABORTED_BY_CALLBACK" /\ ~flag
    THEN Exc("RequeueTask", <<>>)
    ELSE e

\* the inner handler reads _should_exit for an abort by the callback only
\* (`and` does not evaluate its right side otherwise)
Tested(e, flag) ==
    IF e.cls = "pycurl.error" /\ e.arg[1] = "E_ABORTED_BY_CALLBACK"
    THEN IF flag THEN "set" ELSE "unset"
    ELSE "na"

HandledUnwrapped(e) == e

\* the outer handlers: what each puts into _error
Handled(e) ==
    CASE e.cls = "pycurl.error" -> Exc("ConnectionException", <<"libcurl", e.arg[1]>>)
      [] e.cls = "IOError" -> Exc("ConnectionException", <<"IOError", e.arg[2], e.arg[1]>>)
      [] OTHER -> e

\* the exception a handler raises while it builds its message: the IOError
\* handler reads e.args[1] and e.args[0]
HandlerRaises(e) ==
    IF e.cls = "IOError" /\ Len(e.arg) < 2 THEN Exc("IndexError", <<>>) ELSE None

FinallyMissing == <<>>

FinallyTwice == <<"stop_step", "stop_step">>

\* the finally clause of the inner try: with self.task.protect():
\* self.task.stop_step('download')
Finally == <<"stop_step">>

EndRunErrorFirst(e, calls, flag) ==
    LET raised == Classify(e, flag) IN
    /\ IF raised = None
       THEN /\ steps' = steps \o calls
            /\ UNCHANGED <<error, tb, escaped>>
       ELSE IF HandlerRaises(raised) = None
            THEN /\ error' = Handled(raised)
                 /\ tb' = TRUE
                 /\ steps' = steps \o <<"set_error">> \o calls
                 /\ UNCHANGED escaped
            ELSE /\ escaped' = HandlerRaises(raised)
                 /\ steps' = steps \o calls
                 /\ UNCHANGED <<error, tb>>
    /\ classify_flag' = Tested(e, flag)
    /\ exc' = None
    /\ pc' = "done"

\* exception e (None: no exception) leaves the with block after the calls
\* `calls` of the finally clauses on its way: the inner `except pycurl.error`
\* (reading _should_exit as flag), the outer handlers with _set_error, the
\* outer finally; run() ends.  Nothing here is read or written by another
\* thread but _should_exit.
EndRun(e, calls, flag) ==
    LET raised == Classify(e, flag) IN
    /\ IF raised = None
       THEN /\ steps' = steps \o calls
            /\ UNCHANGED <<error, tb, escaped>>
       ELSE IF HandlerRaises(raised) = None
            THEN /\ error' = Handled(raised)
                 /\ tb' = TRUE
                 /\ steps' = steps \o calls \o <<"set_error">>
                 /\ UNCHANGED escaped
            ELSE /\ escaped' = HandlerRaises(raised)
                 /\ steps' = steps \o calls
                 /\ UNCHANGED <<error, tb>>
    /\ classify_flag' = Tested(e, flag)
    /\ exc' = None
    /\ pc' = "done"

\* with self.fifo.open() as target_file
run_open ==
    /\ pc = "loaded"
    /\ \/ pc' = "url" /\ UNCHANGED <<error, tb, escaped, steps, classify_flag, exc>>
       \/ \E e \in {Exc("IOError", <<"errno", "strerror">>),
                    Exc("IOError", <<"message">>),
                    Exc("Exception", <<"open">>)} : EndRun(e, <<>>, should_exit)
    /\ wrote' = FALSE
    /\ UNCHANGED <<should_exit, load_error, scheme, metricsVars, curlVars,
                   relayVars, abort_flag, timed,
                   stats>>

\* key_url = ...: one branch per scheme, assert False for any other
run_url ==
    /\ pc = "url"
    /\ IF scheme \in {"s3", "hdfs", "file"}
       THEN \/ pc' = "setup" /\ UNCHANGED <<error, tb, escaped, steps, classify_flag, exc>>
            \/ /\ scheme = "s3"
               /\ EndRun(Exc("Exception", <<"generate_url">>), <<>>, should_exit)
       ELSE EndRun(Exc("AssertionError", <<"paths", "unsupported">>), <<>>, should_exit)
    /\ wrote' = FALSE
    /\ UNCHANGED <<should_exit, load_error, scheme, metricsVars, curlVars,
                   relayVars, abort_flag, timed,
                   stats>>

\* pycurl.Curl() and the setopt calls
run_setup ==
    /\ pc = "setup"
    /\ \/ pc' = "start_step" /\ UNCHANGED <<error, tb, escaped, steps, classify_flag, exc>>
       \/ EndRun(Exc("pycurl.error", <<"E_FAILED_INIT">>), <<>>, should_exit)
    /\ wrote' = FALSE
    /\ UNCHANGED <<should_exit, load_error, scheme, metricsVars, curlVars,
                   relayVars, abort_flag, timed,
                   stats>>

\* with self.task.protect(): self.task.start_step('download')
run_start_step ==
    /\ pc = "start_step"
    /\ \/ /\ pc' = "perform"
          /\ steps' = Append(steps, "start_step")
          /\ UNCHANGED <<error, tb, escaped, classify_flag, exc>>
       \/ EndRun(Exc("Exception", <<"start_step">>), <<>>, should_exit)
    /\ wrote' = FALSE
    /\ UNCHANGED <<should_exit, load_error, scheme, metricsVars, curlVars,
                   relayVars, abort_flag, timed,
                   stats>>

\* ------------------------------------------------------------ curl.perform()
StallAbortFlagOnly(flag, age) == flag

StallAbortNever(flag, age) == FALSE

StallAbortAtTimeout(flag, age) == flag \/ age >= DOWNLOAD_TIMEOUT

\* if self._should_exit or time.time() > self.metrics.last_change + DOWNLOAD_TIMEOUT
StallAbort(flag, age) == flag \/ age > DOWNLOAD_TIMEOUT

\* Downloader._progress(dltotal, dlnow, ultotal, ulnow), called by libcurl
\* between the write callbacks; returning 1 makes perform() raise
\* pycurl.error(E_ABORTED_BY_CALLBACK)
progress ==
    /\ pc = "perform"
    /\ accumulate_bytes(dlnow)
    /\ IF StallAbort(should_exit, last_change_age')
       THEN /\ exc' = Exc("pycurl.error", <<"E_ABORTED_BY_CALLBACK">>)
            /\ pc' = "aborted"
            /\ abort_flag' = IF should_exit THEN "set" ELSE "unset"
       ELSE UNCHANGED <<pc, exc, abort_flag>>
    /\ wrote' = FALSE
    /\ polled' = TRUE
    /\ UNCHANGED <<should_exit, error, tb, escaped, load_error, scheme, dlnow,
                   relayVars, steps, classify_flag, timed,
                   stats>>

\* perform() has raised the abort: the finally clause, then the inner
\* `except pycurl.error` reads _should_exit (line 195)
run_aborted ==
    /\ pc = "aborted"
    /\ EndRun(exc, Finally, should_exit)
    /\ wrote' = FALSE
    /\ UNCHANGED <<should_exit, load_error, scheme, metricsVars, curlVars,
                   relayVars, abort_flag, timed,
                   stats>>

\* perform() fails in the transport (connection lost, partial file, ...)
perform_fails ==
    /\ pc = "perform"
    /\ EndRun(Exc("pycurl.error", <<"E_RECV_ERROR">>), Finally, should_exit)
    /\ wrote' = FALSE
    /\ UNCHANGED <<should_exit, load_error, scheme, metricsVars, curlVars,
                   relayVars, abort_flag, timed,
                   stats>>

ClientErrorAndAbove(status_code) == status_code >= CLIENT_ERROR_LO

\* status_code >= 400 and status_code < 500
ClientError(status_code) ==
    status_code >= CLIENT_ERROR_LO /\ status_code < CLIENT_ERROR_HI

\* perform() returns; status_code = curl.getinfo(pycurl.HTTP_CODE) is tested
perform_returns(status_code) ==
    /\ pc = "perform"
    /\ IF ClientError(status_code)
       THEN EndRun(Exc("WorkerException", <<"status", status_code, "key_name">>),
                   Finally, should_exit)
       ELSE EndRun(None, Finally, should_exit)
    /\ wrote' = FALSE
    /\ UNCHANGED <<should_exit, load_error, scheme, metricsVars, curlVars,
                   relayVars, abort_flag, timed,
                   stats>>

\* ------------------------------------------------------------ _write_to_fifo
SelectTimeoutWhole == DOWNLOAD_TIMEOUT

\* timeout = DOWNLOAD_TIMEOUT / 2
SelectTimeout == DOWNLOAD_TIMEOUT \div 2

RemainingOffByOne(data, written_bytes) ==
    SubSeq(data, written_bytes + 2, Len(data))

\* to_write = to_write[written_bytes:]
Remaining(data, written_bytes) == SubSeq(data, written_bytes + 1, Len(data))

\* libcurl hands the next n bytes of the body to the write callback:
\* _write_to_fifo_helper(data) starts, to_write = data
write_callback(n) ==
    /\ pc = "perform"
    /\ dlnow + n <= total_size
    /\ dlnow' = dlnow + n
    /\ to_write' = Bytes(dlnow, n)
    /\ pc' = IF Len(to_write') > 0 THEN "wait" ELSE "perform"
    /\ wrote' = FALSE
    /\ UNCHANGED <<should_exit, workerVars, metricsVars, fifo, sel_elapsed,
                   polled, steps, abort_flag, classify_flag, timed,
                   stats>>

RelayPingMissing == UNCHANGED <<last_change_age, ping_age, change_src>>

\* self.metrics.ping() at the top of `while not is_writable`
RelayPing == Ping("relay")

\* top of `while not is_writable`: the ping, then select.select starts
relay_ping ==
    /\ pc = "wait"
    /\ RelayPing
    /\ sel_elapsed' = 0
    /\ pc' = "select"
    /\ wrote' = FALSE
    /\ UNCHANGED <<should_exit, workerVars, total_size, current_size,
                   last_snapshot, snapshots, snapshot_age, since_big, evicted,
                   curlVars, to_write, fifo, steps, abort_flag, classify_flag,
                   timed, stats>>

\* select.select returns: with the FIFO writable at any moment of the wait,
\* with nothing once the timeout has run out
relay_select ==
    /\ pc = "select"
    /\ \/ pc' = "os_write"
       \/ sel_elapsed >= SelectTimeout /\ pc' = "wait"
    /\ sel_elapsed' = 0
    /\ wrote' = FALSE
    /\ UNCHANGED <<should_exit, workerVars, metricsVars, curlVars, to_write,
                   fifo, steps, abort_flag, classify_flag, timed,
                   stats>>

\* written_bytes = os.write(target_file.fileno(), to_write), the slice, and
\* the test of `while len(to_write) > 0`
relay_write(written_bytes) ==
    /\ pc = "os_write"
    /\ written_bytes \in 0..Len(to_write)
    /\ fifo' = fifo \o SubSeq(to_write, 1, written_bytes)
    /\ to_write' = Remaining(to_write, written_bytes)
    /\ IF Len(to_write') > 0
       THEN pc' = "wait" /\ wrote' = FALSE
       ELSE pc' = "perform" /\ wrote' = TRUE
    /\ UNCHANGED <<should_exit, workerVars, metricsVars, curlVars, sel_elapsed,
                   steps, abort_flag, classify_flag, timed,
                   stats>>

\* os.write raises (the reader closed the FIFO): pycurl reports a failed
\* write callback as pycurl.error(E_WRITE_ERROR) from perform()
relay_write_fails ==
    /\ pc = "os_write"
    /\ EndRun(Exc("pycurl.error", <<"E_WRITE_ERROR">>), Finally, should_exit)
    /\ to_write' = <<>>
    /\ wrote' = FALSE
    /\ UNCHANGED <<should_exit, load_error, scheme, metricsVars, curlVars,
                   fifo, sel_elapsed, abort_flag, timed,
                   stats>>

\* ------------------------------------------------------------ time
\* one second passes where the worker can wait: inside perform() between
\* callbacks, where libcurl calls _progress at least once a second, and inside
\* select.select, for at most its timeout
Tick ==
    /\ pc \in {"perform", "select", "tracker"}
    /\ pc = "perform" => polled
    /\ pc = "select" => sel_elapsed < SelectTimeout
    /\ sel_elapsed' = IF pc = "select" THEN sel_elapsed + 1 ELSE sel_elapsed
    /\ polled' = FALSE
    /\ MetricsOlder
    /\ wrote' = FALSE
    /\ UNCHANGED <<pc, should_exit, workerVars, dlnow, to_write, fifo, steps,
                   abort_flag, classify_flag, timed,
                   stats>>

\* ------------------------------------------------------------ specification
\* the counts os.write is tried with for a buffer of len bytes
WriteCounts(len) == {0, (len + 1) \div 2, len}

Next ==
    \/ terminate
    \/ \E sch \in Schemes, lookup \in Lookups, size \in Sizes : load(sch, lookup, size)
    \/ run_open
    \/ run_url
    \/ run_setup
    \/ run_start_step
    \/ progress
    \/ run_aborted
    \/ \E n \in ChunkSizes \cup {0} : write_callback(n)
    \/ relay_ping
    \/ relay_select
    \/ \E n \in WriteCounts(Len(to_write)) : relay_write(n)
    \/ relay_write_fails
    \/ perform_fails
    \/ \E status_code \in StatusCodes : perform_returns(status_code)
    \/ Tick

Spec == Init /\ [][Next]_vars

\* the thread runs on, libcurl keeps calling _progress, and time passes
\* whenever the thread waits (strong fairness: the waits recur, they are not
\* continuous); when the FIFO becomes writable, how much it takes, and what
\* the source sends are up to the environment
Fairness ==
    /\ WF_vars(run_open) /\ WF_vars(run_url) /\ WF_vars(run_setup)
    /\ WF_vars(run_start_step) /\ WF_vars(run_aborted)
    /\ WF_vars(progress) /\ SF_vars(Tick)
    /\ WF_vars(relay_ping) /\ WF_vars(relay_select)
    /\ WF_vars(\E n \in WriteCounts(Len(to_write)) : relay_write(n))

FairSpec == Spec /\ Fairness

\* ---- the stall detector alone: one s3 key, no terminate(), no transport
\* failure; since_big is kept
InitStall ==
    /\ pc = "loaded"
    /\ should_exit = FALSE
    /\ error = None
    /\ tb = FALSE
    /\ exc = None
    /\ escaped = None
    /\ load_error = None
    /\ scheme = "s3"
    /\ total_size \in Sizes
    /\ current_size = 0
    /\ last_snapshot = 0
    /\ snapshots = <<>>
    /\ last_change_age = 0
    /\ ping_age = THROTTLE_SECONDS + 1
    /\ snapshot_age = THROTTLE_SECONDS + 1
    /\ dlnow = 0
    /\ to_write = <<>>
    /\ fifo = <<>>
    /\ sel_elapsed = 0
    /\ polled = FALSE
    /\ steps = <<>>
    /\ abort_flag = "na"
    /\ classify_flag = "na"
    /\ since_big = 0
    /\ change_src = "init"
    /\ evicted = FALSE
    /\ wrote = FALSE
    /\ timed = TRUE
    /\ stats = NoCall

NextStall ==
    \/ run_open
    \/ run_url
    \/ run_setup
    \/ run_start_step
    \/ progress
    \/ run_aborted
    \/ \E n \in ChunkSizes \cup {0} : write_callback(n)
    \/ relay_ping
    \/ relay_select
    \/ \E n \in WriteCounts(Len(to_write)) : relay_write(n)
    \/ \E status_code \in StatusCodes : perform_returns(status_code)
    \/ Tick

SpecStall == InitStall /\ [][NextStall]_vars

\* ---- the tracker alone: DownloadMetrics(total_size), then any
\* accumulate_bytes calls at any times
InitMetrics ==
    /\ pc = "tracker"
    /\ should_exit = FALSE
    /\ error = None
    /\ tb = FALSE
    /\ exc = None
    /\ escaped = None
    /\ load_error = None
    /\ scheme = "none"
    /\ total_size \in Sizes
    /\ current_size = 0
    /\ last_snapshot = 0
    /\ snapshots = <<>>
    /\ last_change_age = 0
    /\ ping_age = THROTTLE_SECONDS + 1
    /\ snapshot_age = THROTTLE_SECONDS + 1
    /\ dlnow = 0
    /\ to_write = <<>>
    /\ fifo = <<>>
    /\ sel_elapsed = 0
    /\ polled = FALSE
    /\ steps = <<>>
    /\ abort_flag = "na"
    /\ classify_flag = "na"
    /\ since_big = 0
    /\ change_src = "init"
    /\ evicted = FALSE
    /\ wrote = FALSE
    /\ timed = FALSE
    /\ stats = NoCall

\* metrics.accumulate_bytes(v) called as _progress calls it: libcurl's
\* dlnow counts the bytes received so far of the total_size bytes of the key,
\* and does not go down
feed(v) ==
    /\ pc = "tracker"
    /\ v >= current_size
    /\ v <= total_size
    /\ accumulate_bytes(v)
    /\ stats' = Interfered(stats)
    /\ UNCHANGED <<pc, should_exit, workerVars, curlVars, relayVars, steps,
                   abort_flag, classify_flag, wrote, timed>>

NextMetrics ==
    \/ \E v \in FeedValues : feed(v)
    \/ Tick

SpecMetrics == InitMetrics /\ [][NextMetrics]_vars

\* ---- the tracker with a reader: accumulate_bytes is called in the transfer
\* thread, get_stats in the worker's thread, one statement at a time
\* lines 59-63: the test and the rate
stats_rate ==
    /\ pc = "tracker"
    /\ stats.at = "idle"
    /\ stats' = [at |-> "line65", rate |-> Rate(current_size, total_size, snapshots),
                 time_left |-> 0, clean |-> TRUE]
    /\ UNCHANGED <<pc, should_exit, workerVars, metricsVars, curlVars, relayVars,
                   steps, abort_flag, classify_flag, wrote, timed>>

\* line 65: time_left, from the rate and a second read of _current_size
stats_time_left ==
    /\ pc = "tracker"
    /\ stats.at = "line65"
    /\ stats' = [stats EXCEPT !.at = "line67",
                              !.time_left = TimeLeft(total_size, current_size, stats.rate)]
    /\ UNCHANGED <<pc, should_exit, workerVars, metricsVars, curlVars, relayVars,
                   steps, abort_flag, classify_flag, wrote, timed>>

\* the dict get_stats returns, built at lines 67-71 with a third read of
\* _current_size
Returned(call) ==
    [bytes_downloaded |-> current_size, download_rate |-> call.rate,
     time_left |-> call.time_left]

\* lines 67-71: return
stats_return ==
    /\ pc = "tracker"
    /\ stats.at = "line67"
    /\ stats' = NoCall
    /\ UNCHANGED <<pc, should_exit, workerVars, metricsVars, curlVars, relayVars,
                   steps, abort_flag, classify_flag, wrote, timed>>

NextStats ==
    \/ \E v \in FeedValues : feed(v)
    \/ Tick
    \/ stats_rate
    \/ stats_time_left
    \/ stats_return

SpecStats == InitMetrics /\ [][NextStats]_vars

\* ---- the write callback alone: perform() of an s3 key has started, libcurl
\* delivers chunks, os.write takes any count from 0 to the remaining length
InitRelay ==
    /\ pc = "perform"
    /\ should_exit = FALSE
    /\ error = None
    /\ tb = FALSE
    /\ exc = None
    /\ escaped = None
    /\ load_error = None
    /\ scheme = "s3"
    /\ total_size \in Sizes
    /\ current_size = 0
    /\ last_snapshot = 0
    /\ snapshots = <<>>
    /\ last_change_age = 0
    /\ ping_age = THROTTLE_SECONDS + 1
    /\ snapshot_age = THROTTLE_SECONDS + 1
    /\ dlnow = 0
    /\ to_write = <<>>
    /\ fifo = <<>>
    /\ sel_elapsed = 0
    /\ polled = TRUE
    /\ steps = <<"start_step">>
    /\ abort_flag = "na"
    /\ classify_flag = "na"
    /\ since_big = 0
    /\ change_src = "init"
    /\ evicted = FALSE
    /\ wrote = FALSE
    /\ timed = FALSE
    /\ stats = NoCall

NextRelay ==
    \/ \E n \in ChunkSizes \cup {0} : write_callback(n)
    \/ relay_ping
    \/ relay_select
    \/ \E n \in 0..Len(to_write) : relay_write(n)
    \/ relay_write_fails
    \/ Tick

SpecRelay == InitRelay /\ [][NextRelay]_vars

\* ------------------------------------------------------------ properties
Aborted == Exc("pycurl.error", <<"E_ABORTED_BY_CALLBACK">>)
InRelay == pc \in {"wait", "select", "os_write"}
Running == pc \in {"perform", "wait", "select", "os_write", "aborted"}
Count(seq, x) == Cardinality({i \in 1..Len(seq) : seq[i] = x})

\* C1 (as claimed): an abort signalled by _progress while _should_exit was
\* unset ends run() with RequeueTask as the error, an abort signalled while it
\* was set ends run() with no error, whenever terminate() is called.
C1_RequeueByFlagAtAbort ==
    pc = "done" /\ abort_flag # "na" =>
        /\ abort_flag = "unset" => error = Exc("RequeueTask", <<>>)
        /\ abort_flag = "set" => error = None

\* C1 (amended): after an abort by _progress, run() records RequeueTask
\* exactly when _should_exit is unset at the moment run() tests it (line 195),
\* and ConnectionException for libcurl's E_ABORTED_BY_CALLBACK when it is set
\* by then, whether it was set before the abort or between the abort and the
\* test; never both, never no error.
C1_RequeueByFlagAtClassification ==
    pc = "done" /\ abort_flag # "na" =>
        /\ classify_flag \in {"set", "unset"}
        /\ classify_flag = "unset" => error = Exc("RequeueTask", <<>>)
        /\ classify_flag = "set" => error = Handled(Aborted)
        /\ abort_flag = "set" => classify_flag = "set"

\* the stall abort that terminate() overtakes before run() classifies it
C1_Witness ==
    pc = "done" /\ abort_flag = "unset" /\ classify_flag = "set"

\* C2 (as claimed): an abort by _progress with _should_exit set ends run()
\* with Downloader.error still None.
C2_CancelledSilently ==
    pc = "done" /\ abort_flag = "set" => error = None

\* C2 (amended): an abort by _progress with _should_exit set ends run() with
\* a ConnectionException recorded (libcurl error E_ABORTED_BY_CALLBACK) and
\* the traceback kept: error is not None.
C2_CancelRecordsConnectionException ==
    pc = "done" /\ abort_flag = "set" =>
        /\ error = Exc("ConnectionException", <<"libcurl", "E_ABORTED_BY_CALLBACK">>)
        /\ tb
        /\ escaped = None

\* terminate() during a transfer that has delivered bytes, then the abort
C2_Witness ==
    pc = "done" /\ abort_flag = "set" /\ dlnow > 0 /\ error # None

C5_WriteReturns ==
    InRelay ~> ~InRelay

\* C5 (amended): each select.select call of the write helper waits at most
\* DOWNLOAD_TIMEOUT / 2 seconds and returns; the helper repeats the call
\* until the FIFO is writable.
C5_EachSelectBounded ==
    /\ [](pc = "select" => sel_elapsed <= DOWNLOAD_TIMEOUT \div 2)
    /\ (pc = "select") ~> (pc # "select")

\* a select call that has waited its whole timeout
C5_Witness ==
    pc = "select" /\ sel_elapsed = DOWNLOAD_TIMEOUT \div 2 /\ Len(to_write) > 0

\* C6: inside the write helper the bytes put into the FIFO followed by the
\* bytes still to write are the bytes received, in order; when the helper
\* has returned the FIFO holds exactly the bytes received, each once.
C6_RelayComplete ==
    /\ InRelay => fifo \o to_write = Bytes(0, dlnow)
    /\ pc = "perform" => fifo = Bytes(0, dlnow) /\ to_write = <<>>

\* a chunk of BigChunk bytes delivered whole by the helper
C6_Witness ==
    pc = "perform" /\ wrote /\ fifo = Bytes(0, BigChunk)

\* C7: when the write helper has returned from a chunk, however long it
\* waited for the FIFO, now - last_change is below DOWNLOAD_TIMEOUT, and a
\* progress check made right then with _should_exit unset does not abort.
C7_BackpressureIsNoStall ==
    [][/\ wrote => last_change_age < DOWNLOAD_TIMEOUT
       /\ progress /\ wrote /\ ~should_exit => pc' = "perform"]_vars

\* the helper returns after a select call that waited its whole timeout
\* behind a throttled ping
C7_Witness ==
    wrote /\ ~should_exit /\ last_change_age > DOWNLOAD_TIMEOUT \div 2

\* C8 (as claimed): stop_step('download') is called exactly once in every
\* run(), whatever the exit path.
C8_StopStepOnce ==
    pc = "done" => Count(steps, "stop_step") = 1

\* C8 (amended): stop_step('download') is called exactly once in every run()
\* in which start_step('download') returned, whatever the exit path after
\* it, and not at all in a run() that failed before.
C8_StopStepOnceIfStarted ==
    pc = "done" =>
        Count(steps, "stop_step") = Count(steps, "start_step")
        /\ Count(steps, "start_step") <= 1

\* a run() that failed inside the bracket (client error status)
C8_Witness ==
    /\ pc = "done" /\ error.cls = "WorkerException"
    /\ steps = <<"start_step", "stop_step", "set_error">>

\* C9: no exception leaves run(), and a run() that recorded no error went
\* through the whole transfer bracket.
C9_AllFailuresCaptured ==
    pc = "done" =>
        /\ escaped = None
        /\ error = None => steps = <<"start_step", "stop_step">>

\* fifo.open() raised an IOError with one argument: the handler's e.args[1]
\* raised IndexError, which left run() with no error recorded
C9_Witness ==
    pc = "done" /\ escaped = Exc("IndexError", <<>>) /\ error = None /\ steps = <<>>

\* C10: _snapshots never holds more than 30 deltas, and a snapshot taken
\* with 30 deltas held drops the oldest and appends the new one.
C10_WindowBounded ==
    /\ [](Len(snapshots) <= AVG_LEN)
    /\ [][snapshot_age' < snapshot_age /\ Len(snapshots) = AVG_LEN =>
            snapshots' = Tail(snapshots) \o <<current_size' - last_snapshot>>]_vars

\* a 31st delta has been appended, and it is not zero
C10_Witness ==
    evicted /\ Len(snapshots) = AVG_LEN /\ snapshots[AVG_LEN] # 0

C12_ThrottledSnapshot ==
    [][\A v \in FeedValues : feed(v) =>
        /\ current_size' = v
        /\ snapshot_age <= THROTTLE_SECONDS =>
                UNCHANGED <<snapshots, last_snapshot, last_change_age>>
        /\ snapshot_age > THROTTLE_SECONDS =>
                /\ snapshots' = Evict(Append(snapshots, v - last_snapshot))
                /\ last_snapshot' = v
                /\ snapshot_age' = 0]_vars

\* a call the throttle suppressed has moved current_size past last_snapshot
C12_Witness ==
    /\ pc = "tracker" /\ snapshot_age <= THROTTLE_SECONDS
    /\ current_size > last_snapshot /\ Len(snapshots) > 0

\* C13: _should_exit starts unset and no step of the worker clears it once
\* it is set.
C13_FlagSingleShot ==
    /\ ~should_exit
    /\ [][should_exit => should_exit']_vars

\* the flag is still set when a run() that recorded an error has ended
C13_Witness ==
    should_exit /\ pc = "done" /\ error # None /\ Len(fifo) > 0

\* C14 (as claimed): load() of an s3 task whose key lookup fails, by an error
\* response or by an empty result, raises WorkerException carrying status,
\* reason and key name, and creates no metrics.
C14_AbsentKeyCarriesStatus ==
    [][\A lookup \in {"key_error", "no_key"} : \A size \in Sizes :
        load("s3", lookup, size) =>
            /\ load_error' = Exc("WorkerException", <<"status", "reason", "key_name">>)
            /\ pc' = "load_failed"
            /\ UNCHANGED metricsVars]_vars

\* C14 (amended): load() of an s3 task raises WorkerException carrying
\* status, reason and key name when get_key raises S3ResponseError, and
\* WorkerException carrying only the task id when get_key returns None; a
\* failing get_bucket leaves load() as S3ResponseError itself.  None of them
\* creates metrics.
C14_AbsentKeyByKind ==
    [][\A lookup \in {"key_error", "no_key", "bucket_error"} : \A size \in Sizes :
        load("s3", lookup, size) =>
            /\ lookup = "key_error" =>
                  load_error' = Exc("WorkerException", <<"status", "reason", "key_name">>)
            /\ lookup = "no_key" => load_error' = Exc("WorkerException", <<"task_id">>)
            /\ lookup = "bucket_error" =>
                  load_error' = Exc("S3ResponseError", <<"status", "reason">>)
            /\ pc' = "load_failed"
            /\ UNCHANGED metricsVars]_vars

\* get_key returned None: the error names the task only
C14_Witness ==
    /\ pc = "load_failed" /\ scheme = "s3"
    /\ load_error = Exc("WorkerException", <<"task_id">>)

\* C15: _progress hands dlnow to the tracker and returns 1 exactly when
\* _should_exit is set or last_change, as it is after that update, lies more
\* than DOWNLOAD_TIMEOUT seconds back.
C15_AbortIffFlagOrStall ==
    [][progress =>
        /\ current_size' = dlnow
        /\ pc' = "aborted" <=>
              (should_exit \/ last_change_age' > DOWNLOAD_TIMEOUT)]_vars

\* terminate() makes _progress abort while last_change is fresh
C15_Witness ==
    pc = "aborted" /\ abort_flag = "set" /\ last_change_age = 0 /\ dlnow > 0

\* C16: when run() has ended with an error recorded after start_step
\* returned, stop_step was called before _set_error.
C16_ErrorAfterBracket ==
    pc = "done" /\ error # None /\ Count(steps, "start_step") > 0 =>
        \E i, j \in 1..Len(steps) :
            /\ steps[i] = "stop_step"
            /\ steps[j] = "set_error"
            /\ i < j

\* a stall requeue, recorded after the bracket closed
C16_Witness ==
    /\ pc = "done" /\ error = Exc("RequeueTask", <<>>)
    /\ steps = <<"start_step", "stop_step", "set_error">>

\* C17: when perform() returns, run() records a WorkerException carrying
\* the status code and the key name exactly for the codes 400..499, and ends
\* with no error for every other code.
C17_ClientErrorOnly ==
    [][\A status_code \in StatusCodes : perform_returns(status_code) =>
        /\ escaped' = None
        /\ IF status_code \in 400..499
           THEN /\ error' = Exc("WorkerException", <<"status", status_code, "key_name">>)
                /\ tb'
           ELSE error' = None /\ ~tb']_vars

\* the last client-error code, recorded
C17_Witness ==
    /\ pc = "done"
    /\ error = Exc("WorkerException", <<"status", CLIENT_ERROR_HI - 1, "key_name">>)

\* C18: every result get_stats returns, with accumulate_bytes of the
\* transfer thread interleaved anywhere, has download_rate 0 and time_left -1
\* when its bytes_downloaded equals total_size.
C18_StatsConsistent ==
    [][stats_return =>
        LET r == Returned(stats) IN
        r.bytes_downloaded = total_size =>
            r.download_rate = 0 /\ r.time_left = -1]_vars

\* the transfer completed between the rate test and the return: the call is
\* about to return bytes_downloaded = total_size with a rate above 0
C18_Witness ==
    /\ stats.at = "line67" /\ ~stats.clean
    /\ current_size = total_size /\ stats.rate > 0

\* C19: in every state of run() a stop_step call comes right after the
\* start_step call that returned, there is at most one of each, and a run()
\* that has ended has as many stop_step calls as start_step calls; none when
\* start_step was not reached or failed.
C19_StepsWellNested ==
    /\ \A i \in 1..Len(steps) :
          steps[i] = "stop_step" => i > 1 /\ steps[i - 1] = "start_step"
    /\ \A i, j \in 1..Len(steps) :
          steps[i] = steps[j] /\ steps[i] \in {"start_step", "stop_step"} => i = j
    /\ pc = "done" =>
          \A i \in 1..Len(steps) :
              steps[i] = "start_step" => i < Len(steps) /\ steps[i + 1] = "stop_step"

\* a run() that failed before start_step returned: the error is recorded and
\* neither call was made
C19_Witness ==
    pc = "done" /\ error # None /\ steps = <<"set_error">>

\* C20: for byte counts that do not go down every delta is >= 0,
\* last_snapshot <= current_size, the window sums to last_snapshot until a
\* delta is evicted and to at most last_snapshot afterwards; and a snapshot
\* leaves last_snapshot equal to the current_size it sampled.
C20_SamplingBookkeeping ==
    /\ [](/\ \A i \in 1..Len(snapshots) : snapshots[i] >= 0
          /\ last_snapshot <= current_size
          /\ ~evicted => SumSeq(snapshots) = last_snapshot
          /\ SumSeq(snapshots) <= last_snapshot)
    /\ [][\A v \in FeedValues : feed(v) =>
            /\ current_size' <= v
            /\ snapshot_age' < snapshot_age => last_snapshot' = current_size']_vars

\* a delta above 0 has been evicted: the window sums to less than last_snapshot
C20_Witness ==
    evicted /\ SumSeq(snapshots) < last_snapshot /\ Len(snapshots) = AVG_LEN

====
